---- MODULE Spec2Model ----
(***************************************************************************)
(* Model of Main.py: the Expense value object and the ExpensePlanner.      *)
(*                                                                         *)
(* Python keeps objects on a heap and lists hold references, so the state  *)
(* is a heap of Expense objects plus the planner's three fields.  Amounts  *)
(* and budgets are Python floats: every addition and subtraction rounds to *)
(* the significand width, modelled here on integers with MantissaBits      *)
(* significant bits (binary64 has 53; the model scales the width down so   *)
(* that rounding happens on small numbers).                                *)
(***************************************************************************)
EXTENDS Integers, Sequences, FiniteSets, TLC

(* ------------------------------ bounds --------------------------------- *)

\* Number of Expense objects constructed (uuids drawn) in one behaviour.
MaxIds == 3

\* Significand width of the modelled floating-point numbers.
MantissaBits == 2

(* --------------------------- Category (enum) --------------------------- *)

Category == {"FOOD", "TRANSPORT", "ENTERTAINMENT", "UTILITIES", "HEALTH",
             "EDUCATION", "OTHER"}

\* A value that is not a Category member (the plain string "food").
NotACategory == "str:food"

isinstance_Category(c) == c \in Category

\* Python's None, as a value comparable with the strings, ids and dates of the
\* model (all of them tuples).
None == <<"None">>

(* ------------------------------- floats -------------------------------- *)

RECURSIVE Pow2(_)
Pow2(n) == IF n = 0 THEN 1 ELSE 2 * Pow2(n - 1)

\* Number of bits of a natural number.
RECURSIVE BitLen(_)
BitLen(n) == IF n = 0 THEN 0 ELSE 1 + BitLen(n \div 2)

\* Round a natural number to MantissaBits significant bits, ties to even.
RoundNat(n) ==
    IF BitLen(n) <= MantissaBits THEN n
    ELSE LET q  == Pow2(BitLen(n) - MantissaBits)
             hi == n \div q
             lo == n % q
         IN  IF 2 * lo < q THEN hi * q
             ELSE IF 2 * lo > q THEN (hi + 1) * q
             ELSE IF hi % 2 = 0 THEN hi * q ELSE (hi + 1) * q

RoundFloat(x) == IF x >= 0 THEN RoundNat(x) ELSE 0 - RoundNat(0 - x)

\* float + float and float - float.
FAdd(a, b) == RoundFloat(a + b)
FSub(a, b) == RoundFloat(a - b)

(* -------------------------------- dates -------------------------------- *)

\* A date is <<year, month, day>>; datetime.date orders them
\* lexicographically.
DateLT(a, b) ==
    \/ a[1] < b[1]
    \/ a[1] = b[1] /\ a[2] < b[2]
    \/ a[1] = b[1] /\ a[2] = b[2] /\ a[3] < b[3]
DateLE(a, b) == a = b \/ DateLT(a, b)

IsLeap(y) == y % 4 = 0 /\ (y % 100 # 0 \/ y % 400 = 0)

DaysInMonth(y, m) ==
    IF m = 2 THEN (IF IsLeap(y) THEN 29 ELSE 28)
    ELSE IF m \in {4, 6, 9, 11} THEN 30 ELSE 31

\* datetime.date(y, m, d): the date, or the ValueError it raises.
DateNew(y, m, d) ==
    IF ~(1 <= y /\ y <= 9999)
        THEN [err |-> "year is out of range", val |-> None]
    ELSE IF ~(1 <= m /\ m <= 12)
        THEN [err |-> "month must be in 1..12", val |-> None]
    ELSE IF ~(1 <= d /\ d <= DaysInMonth(y, m))
        THEN [err |-> "day is out of range for month", val |-> None]
    ELSE [err |-> "", val |-> <<y, m, d>>]

\* date.replace(day=d)
DateReplaceDay(dt, d) == DateNew(dt[1], dt[2], d)

\* date.today(): the clock's reading.
Today == <<2024, 12, 31>>

(* ------------------------------- strings ------------------------------- *)

\* A string is a sequence of characters; str.strip() drops the white space
\* at both ends.
RECURSIVE LStrip(_)
LStrip(s) == IF s # <<>> /\ Head(s) = " " THEN LStrip(Tail(s)) ELSE s

RECURSIVE RStrip(_)
RStrip(s) ==
    IF s # <<>> /\ s[Len(s)] = " " THEN RStrip(SubSeq(s, 1, Len(s) - 1)) ELSE s

Strip(s) == RStrip(LStrip(s))

\* Truthiness of a str, a date or None: None and "" are falsy.
Truthy(s) == s # None /\ s # <<>>

(* ------------------------------- Expense ------------------------------- *)

\* Variant: a generator that returns the same id every time.
Uuid4Repeating(drawn) == <<"uuid", 1>>

\* str(uuid.uuid4()) given the ids drawn so far: an id not drawn before.
\* Ids are only ever compared for equality, so the model takes the next
\* unused one.
Uuid4(drawn) == <<"uuid", Len(drawn) + 1>>

\* Variant: the amount check written "amount < 0".
ExpenseErrorZeroAllowed(description, amount, category, expense_date) ==
    IF ~Truthy(description) \/ ~Truthy(Strip(description))
        THEN "Description cannot be empty"
    ELSE IF amount < 0 THEN "Amount must be positive"
    ELSE IF ~isinstance_Category(category) THEN "Invalid category"
    ELSE IF DateLT(Today, expense_date)
        THEN "Expense date cannot be in the future"
    ELSE ""

\* The checks of Expense.__init__: the message of the ValueError raised, or
\* "" when construction goes through.
ExpenseError(description, amount, category, expense_date) ==
    IF ~Truthy(description) \/ ~Truthy(Strip(description))
        THEN "Description cannot be empty"
    ELSE IF amount <= 0 THEN "Amount must be positive"
    ELSE IF ~isinstance_Category(category) THEN "Invalid category"
    ELSE IF DateLT(Today, expense_date)
        THEN "Expense date cannot be in the future"
    ELSE ""

\* The fields Expense.__init__ assigns.
ExpenseFields(id, description, amount, category, expense_date) ==
    [id          |-> id,
     description |-> Strip(description),
     amount      |-> amount,
     category    |-> category,
     date        |-> expense_date]

(* ---------------------------- ExpensePlanner --------------------------- *)

VARIABLES
    heap,             \* the live Expense objects, by address
    expenses,         \* self._expenses: a list of references (addresses)
    category_budgets, \* self._category_budgets
    monthly_budget,   \* self._monthly_budget
    issued,           \* the ids uuid4 has returned so far, in order
    last              \* the last call: operation, arguments, error, result,
                      \* and what the caller did to the result since

vars == <<heap, expenses, category_budgets, monthly_budget, issued, last>>

Range(s) == {s[i] : i \in DOMAIN s}

\* The objects a list of references points to.
Deref(refs) == [i \in DOMAIN refs |-> heap[refs[i]]]

\* The operations that return a list of Expense references.
ListOps == {"expenses", "get_expenses_by_category", "get_top_expenses"}

\* The references a returned value holds.
RefsOf(call) ==
    IF call.op \in ListOps /\ call.err = "" THEN Range(call.ret) ELSE {}

\* Objects nothing refers to any more are reclaimed.
Collect(h, list, call) ==
    [a \in (DOMAIN h) \cap (Range(list) \cup RefsOf(call)) |-> h[a]]

\* The address of a newly allocated object.
NewAddr(h) == CHOOSE a \in 1..(Cardinality(DOMAIN h) + 1) : a \notin DOMAIN h

Call(op, args, err, ret) ==
    [op |-> op, args |-> args, err |-> err, ret |-> ret, caller |-> "none"]

\* ExpensePlanner.__init__ and _initialize_category_budgets
InitBudgets == [c \in Category |-> 0]

Init ==
    /\ heap = <<>>
    /\ expenses = <<>>
    /\ category_budgets = InitBudgets
    /\ monthly_budget = 0
    /\ issued = <<>>
    /\ last = Call("__init__", <<>>, "", None)

\* What every read operation leaves alone.
ReadOnly(call) ==
    /\ last' = call
    /\ heap' = Collect(heap, expenses, call)
    /\ UNCHANGED <<expenses, category_budgets, monthly_budget, issued>>

(* add_expense *)

add_expense(description, amount, category, expense_date) ==
    LET err == ExpenseError(description, amount, category, expense_date)
        args == <<description, amount, category, expense_date>>
    IN  IF err # ""
        THEN ReadOnly(Call("add_expense", args, err, None))
        ELSE /\ Len(issued) < MaxIds
             /\ LET id == Uuid4(issued)
                    a  == NewAddr(heap)
                    call == Call("add_expense", args, "", id)
                IN  /\ expenses' = Append(expenses, a)
                    /\ heap' = Collect(
                           (a :> ExpenseFields(id, description, amount,
                                               category, expense_date)) @@ heap,
                           expenses', call)
                    /\ issued' = Append(issued, id)
                    /\ last' = call
             /\ UNCHANGED <<category_budgets, monthly_budget>>

(* remove_expense *)

\* Variant: the comprehension written with "==".
RECURSIVE FilterOutInverted(_, _)
FilterOutInverted(list, expense_id) ==
    IF list = <<>> THEN <<>>
    ELSE IF heap[Head(list)].id = expense_id
         THEN <<Head(list)>> \o FilterOutInverted(Tail(list), expense_id)
         ELSE FilterOutInverted(Tail(list), expense_id)

\* [exp for exp in self._expenses if exp.id != expense_id]
RECURSIVE FilterOut(_, _)
FilterOut(list, expense_id) ==
    IF list = <<>> THEN <<>>
    ELSE IF heap[Head(list)].id # expense_id
         THEN <<Head(list)>> \o FilterOut(Tail(list), expense_id)
         ELSE FilterOut(Tail(list), expense_id)

remove_expense(expense_id) ==
    IF ~Truthy(expense_id)
    THEN ReadOnly(Call("remove_expense", <<expense_id>>,
                       "Expense ID cannot be empty", None))
    ELSE LET initial_count == Len(expenses)
             kept == FilterOut(expenses, expense_id)
             call == Call("remove_expense", <<expense_id>>, "",
                          Len(kept) < initial_count)
         IN  /\ expenses' = kept
             /\ heap' = Collect(heap, kept, call)
             /\ last' = call
             /\ UNCHANGED <<category_budgets, monthly_budget, issued>>

(* set_monthly_budget, set_category_budget *)

\* Variant: no check of the budget.
BudgetErrorUnchecked(budget) == ""

\* if budget < 0: raise ValueError

BudgetError(budget) == IF budget < 0 THEN "Budget cannot be negative" ELSE ""

set_monthly_budget(budget) ==
    LET err == BudgetError(budget)
    IN  IF err # ""
        THEN ReadOnly(Call("set_monthly_budget", <<budget>>, err, None))
        ELSE /\ monthly_budget' = budget
             /\ last' = Call("set_monthly_budget", <<budget>>, "", None)
             /\ heap' = Collect(heap, expenses, last')
             /\ UNCHANGED <<expenses, category_budgets, issued>>

set_category_budget(category, budget) ==
    LET err == IF ~isinstance_Category(category) THEN "Invalid category"
               ELSE BudgetError(budget)
        args == <<category, budget>>
    IN  IF err # ""
        THEN ReadOnly(Call("set_category_budget", args, err, None))
        ELSE /\ category_budgets' =
                    [category_budgets EXCEPT ![category] = budget]
             /\ last' = Call("set_category_budget", args, "", None)
             /\ heap' = Collect(heap, expenses, last')
             /\ UNCHANGED <<expenses, monthly_budget, issued>>

(* get_total_expenses *)

InRange(start_date, e, end_date) ==
    DateLE(start_date, e.date) /\ DateLE(e.date, end_date)

\* total = 0.0; for expense in objs: if in range: total += expense.amount
RECURSIVE TotalLoop(_, _, _)
TotalLoop(objs, start_date, end_date) ==
    IF objs = <<>> THEN 0
    ELSE LET n    == Len(objs)
             rest == TotalLoop(SubSeq(objs, 1, n - 1), start_date, end_date)
         IN  IF InRange(start_date, objs[n], end_date)
             THEN FAdd(rest, objs[n].amount)
             ELSE rest

get_total_expenses(start_date, end_date) ==
    IF ~Truthy(start_date) \/ ~Truthy(end_date)
        THEN [err |-> "Dates cannot be None", val |-> None]
    ELSE IF DateLT(end_date, start_date)
        THEN [err |-> "Start date cannot be after end date", val |-> None]
    ELSE [err |-> "",
          val |-> TotalLoop(Deref(expenses), start_date, end_date)]

(* get_expenses_by_category *)

RECURSIVE FilterCategory(_, _)
FilterCategory(list, category) ==
    IF list = <<>> THEN <<>>
    ELSE IF heap[Head(list)].category = category
         THEN <<Head(list)>> \o FilterCategory(Tail(list), category)
         ELSE FilterCategory(Tail(list), category)

get_expenses_by_category(category) ==
    IF ~isinstance_Category(category)
        THEN [err |-> "Invalid category", val |-> None]
    ELSE [err |-> "", val |-> FilterCategory(expenses, category)]

(* get_remaining_monthly_budget *)

\* The last day of the month as the code computes it: the date, or the
\* ValueError of the date constructor or of replace().
MonthEnd(year, month) ==
    IF month = 12 THEN DateNew(year, month, 31)
    ELSE LET next == DateNew(year, month + 1, 1)
         IN  IF next.err # "" THEN next
             ELSE DateReplaceDay(next.val, next.val[3] - 1)

get_remaining_monthly_budget(year, month) ==
    IF ~(1 <= month /\ month <= 12)
        THEN [err |-> "Month must be between 1 and 12", val |-> None]
    ELSE LET start_date == DateNew(year, month, 1)
         IN  IF start_date.err # "" THEN start_date
             ELSE LET end_date == MonthEnd(year, month)
                  IN  IF end_date.err # "" THEN end_date
                      ELSE LET total_expenses ==
                                   get_total_expenses(start_date.val,
                                                      end_date.val)
                           IN  IF total_expenses.err # "" THEN total_expenses
                               ELSE [err |-> "",
                                     val |-> FSub(monthly_budget,
                                                  total_expenses.val)]

(* is_category_budget_exceeded *)

\* sum(exp.amount for exp in objs)
RECURSIVE SumAmounts(_)
SumAmounts(objs) ==
    IF objs = <<>> THEN 0
    ELSE FAdd(SumAmounts(SubSeq(objs, 1, Len(objs) - 1)),
              objs[Len(objs)].amount)

\* Variant: the comparison written ">=".
ExceedsOrEquals(category_expenses, category_budget) ==
    category_expenses >= category_budget

\* category_expenses > category_budget
Exceeds(category_expenses, category_budget) ==
    category_expenses > category_budget

is_category_budget_exceeded(category) ==
    IF ~isinstance_Category(category)
        THEN [err |-> "Invalid category", val |-> None]
    ELSE LET category_budget == category_budgets[category]
         IN  IF category_budget = 0 THEN [err |-> "", val |-> FALSE]
             ELSE LET category_expenses ==
                          SumAmounts(Deref(get_expenses_by_category(category).val))
                  IN  [err |-> "",
                       val |-> Exceeds(category_expenses, category_budget)]

(* get_category_statistics *)

\* statistics.get(key, 0.0)
DictGet(d, key, default) == IF key \in DOMAIN d THEN d[key] ELSE default

\* d[key] = value
DictSet(d, key, value) ==
    [k \in (DOMAIN d) \cup {key} |-> IF k = key THEN value ELSE d[k]]

\* Variant: statistics starts with every category at 0.
RECURSIVE StatisticsLoopAllKeys(_, _, _)
StatisticsLoopAllKeys(objs, start_date, end_date) ==
    IF objs = <<>> THEN [c \in Category |-> 0]
    ELSE LET n == Len(objs)
             statistics == StatisticsLoopAllKeys(SubSeq(objs, 1, n - 1),
                                                 start_date, end_date)
             e == objs[n]
         IN  IF InRange(start_date, e, end_date)
             THEN DictSet(statistics, e.category,
                          FAdd(DictGet(statistics, e.category, 0), e.amount))
             ELSE statistics

\* statistics = {}; for expense in objs: if in range: add its amount to
\* its category's entry.
RECURSIVE StatisticsLoop(_, _, _)
StatisticsLoop(objs, start_date, end_date) ==
    IF objs = <<>> THEN <<>>
    ELSE LET n == Len(objs)
             statistics == StatisticsLoop(SubSeq(objs, 1, n - 1),
                                          start_date, end_date)
             e == objs[n]
         IN  IF InRange(start_date, e, end_date)
             THEN DictSet(statistics, e.category,
                          FAdd(DictGet(statistics, e.category, 0), e.amount))
             ELSE statistics

get_category_statistics(start_date, end_date) ==
    IF ~Truthy(start_date) \/ ~Truthy(end_date)
        THEN [err |-> "Dates cannot be None", val |-> None]
    ELSE [err |-> "",
          val |-> StatisticsLoop(Deref(expenses), start_date, end_date)]

(* get_top_expenses *)

\* Variant: an element goes before the placed elements of equal amount.
RECURSIVE InsertDescUnstable(_, _)
InsertDescUnstable(sorted, a) ==
    IF sorted = <<>> THEN <<a>>
    ELSE IF heap[Head(sorted)].amount > heap[a].amount
         THEN <<Head(sorted)>> \o InsertDescUnstable(Tail(sorted), a)
         ELSE <<a>> \o sorted

\* sorted(..., key=amount, reverse=True) is stable: an element goes after
\* every element already placed whose amount is >= its own.
RECURSIVE InsertDesc(_, _)
InsertDesc(sorted, a) ==
    IF sorted = <<>> THEN <<a>>
    ELSE IF heap[Head(sorted)].amount >= heap[a].amount
         THEN <<Head(sorted)>> \o InsertDesc(Tail(sorted), a)
         ELSE <<a>> \o sorted

RECURSIVE SortedByAmountDesc(_)
SortedByAmountDesc(list) ==
    IF list = <<>> THEN <<>>
    ELSE InsertDesc(SortedByAmountDesc(SubSeq(list, 1, Len(list) - 1)),
                  list[Len(list)])

\* s[:limit] for limit > 0
Slice(s, limit) == SubSeq(s, 1, IF limit < Len(s) THEN limit ELSE Len(s))

get_top_expenses(limit) ==
    IF limit <= 0 THEN [err |-> "Limit must be positive", val |-> None]
    ELSE [err |-> "", val |-> Slice(SortedByAmountDesc(expenses), limit)]

(* get_expenses_summary *)

\* average_expense is total / count in floating point; the model keeps the
\* quotient as the pair <<total, count>>, and 0 for an empty collection.
get_expenses_summary ==
    LET total_expenses == SumAmounts(Deref(expenses))
        avg_expense == IF expenses # <<>>
                       THEN <<total_expenses, Len(expenses)>> ELSE <<0, 1>>
    IN  [total_expenses   |-> total_expenses,
         expense_count    |-> Len(expenses),
         average_expense  |-> avg_expense,
         monthly_budget   |-> monthly_budget,
         category_budgets |-> category_budgets]

(* get_category_budget: self._category_budgets[category] *)
get_category_budget(category) ==
    IF category \in DOMAIN category_budgets
        THEN [err |-> "", val |-> category_budgets[category]]
    ELSE [err |-> "KeyError", val |-> None]

(* --------------------------- calls and inputs -------------------------- *)

PastDate   == <<2024, 11, 30>>
FutureDate == <<2025, 1, 1>>

\* Arguments of add_expense: the valid ones, and for each check of
\* Expense.__init__ arguments that fail it.
ValidDescription == <<" ", "a", " ">>

AddInputs ==
    {<<ValidDescription, 4, "FOOD", Today>>,
     <<ValidDescription, 1, "FOOD", PastDate>>,
     <<ValidDescription, 1, "TRANSPORT", Today>>,
     <<<<>>, 1, "FOOD", Today>>,
     <<<<" ", " ">>, 1, "FOOD", Today>>,
     <<ValidDescription, 0, "FOOD", Today>>,
     <<ValidDescription, -1, "FOOD", Today>>,
     <<ValidDescription, 1, NotACategory, Today>>,
     <<ValidDescription, 1, "FOOD", FutureDate>>}

IdInputs == {<<"uuid", n>> : n \in 1..MaxIds} \cup {<<>>, None}

BudgetInputs == {-1, 0, 2}

CategoryInputs == {"FOOD", "TRANSPORT", NotACategory}

DateInputs == {PastDate, Today}

YearInputs == {2024}

MonthInputs == {0, 2, 12}

LimitInputs == {0, 1, 2}

Result(op, args, r) == ReadOnly(Call(op, args, r.err, r.val))

AddExpense == \E i \in AddInputs : add_expense(i[1], i[2], i[3], i[4])

RemoveExpense == \E id \in IdInputs : remove_expense(id)

SetMonthlyBudget == \E b \in BudgetInputs : set_monthly_budget(b)

SetCategoryBudget ==
    \E i \in ({"FOOD"} \X BudgetInputs) \cup {<<NotACategory, 2>>} :
        set_category_budget(i[1], i[2])

GetTotalExpenses ==
    \E i \in (DateInputs \X DateInputs) \cup {<<None, Today>>} :
        Result("get_total_expenses", i, get_total_expenses(i[1], i[2]))

GetExpensesByCategory ==
    \E c \in CategoryInputs :
        Result("get_expenses_by_category", <<c>>, get_expenses_by_category(c))

GetRemainingMonthlyBudget ==
    \E y \in YearInputs, m \in MonthInputs :
        Result("get_remaining_monthly_budget", <<y, m>>,
               get_remaining_monthly_budget(y, m))

IsCategoryBudgetExceeded ==
    \E c \in CategoryInputs :
        Result("is_category_budget_exceeded", <<c>>,
               is_category_budget_exceeded(c))

GetCategoryStatistics ==
    \E i \in (DateInputs \X DateInputs) \cup {<<Today, None>>} :
        Result("get_category_statistics", i,
               get_category_statistics(i[1], i[2]))

GetTopExpenses ==
    \E n \in LimitInputs :
        Result("get_top_expenses", <<n>>, get_top_expenses(n))

GetExpensesSummary ==
    ReadOnly(Call("get_expenses_summary", <<>>, "", get_expenses_summary))

\* The expenses property: self._expenses.copy()
GetExpenses == ReadOnly(Call("expenses", <<>>, "", expenses))

\* The monthly_budget property
GetMonthlyBudget == ReadOnly(Call("monthly_budget", <<>>, "", monthly_budget))

GetCategoryBudget ==
    \E c \in {"FOOD", NotACategory} :
        Result("get_category_budget", <<c>>, get_category_budget(c))

Next ==
    \/ AddExpense
    \/ RemoveExpense
    \/ SetMonthlyBudget
    \/ SetCategoryBudget
    \/ GetTotalExpenses
    \/ GetExpensesByCategory
    \/ GetRemainingMonthlyBudget
    \/ IsCategoryBudgetExceeded
    \/ GetCategoryStatistics
    \/ GetTopExpenses
    \/ GetExpensesSummary
    \/ GetExpenses
    \/ GetMonthlyBudget
    \/ GetCategoryBudget

Spec == Init /\ [][Next]_vars

(* ------------------- the caller, holding a returned value --------------- *)

\* The values the caller writes into a field or a map entry.
CallerValues == {2}

\* The caller holds a list just returned and has not touched it yet.
HoldsList == last.op \in ListOps /\ last.err = "" /\ last.caller = "none"

\* returned[k].amount = v
CallerSetAmount ==
    /\ HoldsList
    /\ \E a \in Range(last.ret), v \in CallerValues :
          /\ heap[a].amount # v
          /\ heap' = [heap EXCEPT ![a].amount = v]
    /\ last' = [last EXCEPT !.caller = "set_amount"]
    /\ UNCHANGED <<expenses, category_budgets, monthly_budget, issued>>

\* del returned[0]
CallerListRemove ==
    /\ HoldsList
    /\ last.ret # <<>>
    /\ last' = [last EXCEPT !.ret = Tail(@), !.caller = "list_remove"]
    /\ heap' = Collect(heap, expenses, last')
    /\ UNCHANGED <<expenses, category_budgets, monthly_budget, issued>>

\* returned.append(returned[0])
CallerListAppend ==
    /\ HoldsList
    /\ last.ret # <<>>
    /\ last' = [last EXCEPT !.ret = Append(@, Head(@)),
                            !.caller = "list_append"]
    /\ UNCHANGED <<heap, expenses, category_budgets, monthly_budget, issued>>

\* summary["category_budgets"][c] = v
CallerSetBudgetEntry ==
    /\ last.op = "get_expenses_summary"
    /\ last.caller = "none"
    /\ \E c \in {"FOOD"}, v \in CallerValues :
          /\ last.ret.category_budgets[c] # v
          /\ last' = [last EXCEPT !.ret.category_budgets[c] = v,
                                  !.caller = "set_budget_entry"]
    /\ UNCHANGED <<heap, expenses, category_budgets, monthly_budget, issued>>

CallerNext ==
    \/ Next
    \/ CallerSetAmount
    \/ CallerListRemove
    \/ CallerListAppend
    \/ CallerSetBudgetEntry

SpecCaller == Init /\ [][CallerNext]_vars

(* ------------------------------- claims -------------------------------- *)

\* What the planner's state is to its callers: the stored expenses with
\* their fields, in order, and the budgets.
PlannerView == <<Deref(expenses), category_budgets, monthly_budget>>

IdsOf(list) == {heap[a].id : a \in Range(list)}

\* The floating-point sum of the amounts of a sequence of expenses, taken
\* from the first to the last.
RECURSIVE FloatSumFrom(_, _)
FloatSumFrom(acc, objs) ==
    IF objs = <<>> THEN acc
    ELSE FloatSumFrom(FAdd(acc, Head(objs).amount), Tail(objs))

\* The sum, in insertion order, of the amounts of the expenses that satisfy
\* Keep.
SumWhere(objs, Keep(_)) == FloatSumFrom(0, SelectSeq(objs, Keep))

\* C1: for 1 <= month <= 12, get_remaining_monthly_budget(year, month)
\* returns without error monthly_budget minus the sum of the amounts of the
\* expenses dated in that calendar month.
C1_RemainingMonthlyBudget ==
    (last.op = "get_remaining_monthly_budget"
        /\ 1 <= last.args[2] /\ last.args[2] <= 12)
    => /\ last.err = ""
       /\ LET InMonth(e) == e.date[1] = last.args[1] /\ e.date[2] = last.args[2]
          IN  last.ret = FSub(monthly_budget, SumWhere(Deref(expenses), InMonth))

\* C1, the month the code gets right: for December the call returns
\* monthly_budget minus the sum of that month's expenses.
C1_December ==
    (last.op = "get_remaining_monthly_budget" /\ last.args[2] = 12)
    => /\ last.err = ""
       /\ LET InMonth(e) == e.date[1] = last.args[1] /\ e.date[2] = 12
          IN  last.ret = FSub(monthly_budget, SumWhere(Deref(expenses), InMonth))

\* C2: a successful add_expense appends exactly one entry: the collection
\* grows by one, the previous entries keep content and order, the new entry
\* carries the trimmed description and the given amount, category and date,
\* and the returned id is non-empty, is the new entry's id and differs from
\* every id issued before.
C2_AddAppendsOne ==
    [][(last'.op = "add_expense" /\ last'.err = "")
       => /\ Len(expenses') = Len(expenses) + 1
          /\ \A i \in 1..Len(expenses) :
                 /\ expenses'[i] = expenses[i]
                 /\ heap'[expenses'[i]] = heap[expenses[i]]
          /\ LET new == heap'[expenses'[Len(expenses')]]
             IN  /\ new.description = Strip(last'.args[1])
                 /\ new.amount = last'.args[2]
                 /\ new.category = last'.args[3]
                 /\ new.date = last'.args[4]
                 /\ last'.ret = new.id
                 /\ last'.ret # <<>>
                 /\ last'.ret \notin Range(issued)
                 /\ last'.ret \notin IdsOf(expenses)]_vars

\* C2's case: an add succeeded on a planner that already held an expense and
\* had removed another.
C2_Witness ==
    /\ last.op = "add_expense"
    /\ last.err = ""
    /\ Len(expenses) >= 2
    /\ Len(issued) > Len(expenses)

\* C3: remove_expense with a non-empty id returns true and removes exactly
\* the expense of that id, keeping the others in order, when one has it;
\* otherwise it returns false and changes nothing; and an id once removed
\* never comes back, so a second call returns false.
C3_RemoveExpense ==
    [][/\ (last'.op = "remove_expense" /\ last'.err = "")
          => LET id == last'.args[1]
                 at == {i \in DOMAIN expenses : heap[expenses[i]].id = id}
             IN  IF at # {}
                 THEN /\ last'.ret = TRUE
                      /\ Len(expenses') = Len(expenses) - 1
                      /\ \E k \in at :
                           Deref(expenses)' =
                               SubSeq(Deref(expenses), 1, k - 1)
                               \o SubSeq(Deref(expenses), k + 1, Len(expenses))
                      /\ id \notin IdsOf(expenses)'
                 ELSE /\ last'.ret = FALSE
                      /\ PlannerView' = PlannerView
       /\ \A id \in Range(issued) \ IdsOf(expenses) : id \notin IdsOf(expenses)'
      ]_vars

\* C3's case: a call with the id of an expense removed earlier returned
\* false on a planner that still holds expenses.
C3_Witness ==
    /\ last.op = "remove_expense"
    /\ last.err = ""
    /\ last.ret = FALSE
    /\ last.args[1] \in Range(issued)
    /\ Len(expenses) >= 2

\* C4: a call that fails validation leaves expenses and budgets as they
\* were, and the listed invalid arguments do fail: add_expense with an empty
\* or blank description, an amount <= 0, a non-Category or a date after
\* today; remove_expense with an empty or absent id; a negative budget.
C4_FailedCallChangesNothing ==
    [][/\ last'.err # "" => PlannerView' = PlannerView
       /\ (last'.op = "add_expense"
             /\ \/ Strip(last'.args[1]) = <<>>
                \/ last'.args[2] <= 0
                \/ last'.args[3] \notin Category
                \/ DateLT(Today, last'.args[4]))
          => last'.err # ""
       /\ (last'.op = "remove_expense" /\ last'.args[1] \in {<<>>, None})
          => last'.err # ""
       /\ (last'.op = "set_monthly_budget" /\ last'.args[1] < 0)
          => last'.err # ""
       /\ (last'.op = "set_category_budget" /\ last'.args[2] < 0)
          => last'.err # ""
      ]_vars

\* C4's case: add_expense was refused for its amount on a planner that holds
\* expenses and budgets.
C4_Witness ==
    /\ last.op = "add_expense"
    /\ last.err = "Amount must be positive"
    /\ last.args[2] = 0
    /\ expenses # <<>>
    /\ monthly_budget > 0
    /\ category_budgets["FOOD"] > 0

\* C5: the budget map has exactly the seven categories as keys, no budget is
\* negative, every stored amount is positive, and a fresh planner has all
\* budgets 0.
C5_BudgetInvariant ==
    /\ DOMAIN category_budgets = Category
    /\ Cardinality(DOMAIN category_budgets) = 7
    /\ \A c \in Category : category_budgets[c] >= 0
    /\ monthly_budget >= 0
    /\ \A a \in Range(expenses) : heap[a].amount > 0
    /\ last.op = "__init__"
       => monthly_budget = 0 /\ \A c \in Category : category_budgets[c] = 0

\* C5's case: budgets were set, expenses stored, and a negative budget was
\* just refused.
C5_Witness ==
    /\ last.op \in {"set_monthly_budget", "set_category_budget"}
    /\ last.err = "Budget cannot be negative"
    /\ monthly_budget > 0
    /\ category_budgets["FOOD"] > 0
    /\ expenses # <<>>

\* C6: is_category_budget_exceeded(c) is false when the budget of c is 0,
\* and otherwise true exactly when the sum of all stored expenses of c is
\* strictly greater than the budget.
C6_CategoryBudgetExceeded ==
    (last.op = "is_category_budget_exceeded" /\ last.args[1] \in Category)
    => /\ last.err = ""
       /\ LET c == last.args[1]
              OfCategory(e) == e.category = c
              spent == SumWhere(Deref(expenses), OfCategory)
          IN  last.ret = IF category_budgets[c] = 0 THEN FALSE
                         ELSE spent > category_budgets[c]

\* C6's case: the spending of a category equals its non-zero budget and the
\* check said "not exceeded".
C6_Witness ==
    /\ last.op = "is_category_budget_exceeded"
    /\ last.err = ""
    /\ last.args[1] = "FOOD"
    /\ category_budgets["FOOD"] = 2
    /\ LET OfFood(e) == e.category = "FOOD"
       IN  SumWhere(Deref(expenses), OfFood) = 2
    /\ last.ret = FALSE

\* The sum of the values of a mapping, taken in the order of the enum.
RECURSIVE SumValues(_, _)
SumValues(d, keys) ==
    IF keys = <<>> THEN 0
    ELSE LET k == keys[Len(keys)]
             rest == SumValues(d, SubSeq(keys, 1, Len(keys) - 1))
         IN  IF k \in DOMAIN d THEN FAdd(rest, d[k]) ELSE rest

CategoryOrder == <<"FOOD", "TRANSPORT", "ENTERTAINMENT", "UTILITIES", "HEALTH",
                   "EDUCATION", "OTHER">>

\* C7: for start <= end, get_total_expenses(start, end) equals the sum of
\* the values of get_category_statistics(start, end).
C7_TotalEqualsStatisticsSum ==
    (last.op = "get_total_expenses" /\ last.err = "")
    => last.ret = SumValues(
                      get_category_statistics(last.args[1], last.args[2]).val,
                      CategoryOrder)

\* C8: for limit > 0, get_top_expenses returns min(limit, count) stored
\* expenses, amounts non-increasing, none of the left-out ones larger than a
\* returned one, equal amounts in insertion order, and the collection is
\* left as it was; for limit <= 0 it fails.
C8_TopExpenses ==
    [][last'.op = "get_top_expenses"
       => /\ PlannerView' = PlannerView
          /\ expenses' = expenses
          /\ IF last'.args[1] <= 0 THEN last'.err # ""
             ELSE /\ last'.err = ""
                  /\ LET r == last'.ret
                         n == last'.args[1]
                         Pos(a) == CHOOSE i \in DOMAIN expenses : expenses[i] = a
                     IN  /\ Len(r) = IF n < Len(expenses) THEN n ELSE Len(expenses)
                         /\ Range(r) \subseteq Range(expenses)
                         /\ \A i, j \in DOMAIN r : i # j => r[i] # r[j]
                         /\ \A i, j \in DOMAIN r :
                              i < j => /\ heap[r[i]].amount >= heap[r[j]].amount
                                       /\ heap[r[i]].amount = heap[r[j]].amount
                                          => Pos(r[i]) < Pos(r[j])
                         /\ \A a \in Range(expenses) \ Range(r), b \in Range(r) :
                              heap[a].amount <= heap[b].amount
      ]_vars

\* C8's case: two of three stored expenses were returned and they have the
\* same amount.
C8_Witness ==
    /\ last.op = "get_top_expenses"
    /\ last.err = ""
    /\ Len(expenses) = 3
    /\ Len(last.ret) = 2
    /\ heap[last.ret[1]].amount = heap[last.ret[2]].amount
    /\ heap[expenses[1]].amount = 4

\* C9: whatever the caller does to a value a read operation returned, the
\* planner's expenses, their fields and the budgets stay as they were.
C9_CallerCannotChangePlanner ==
    [][last'.caller # "none" => PlannerView' = PlannerView]_vars

\* C9, the part the copies do give: changing the returned list itself, or
\* the returned budget map, leaves the planner as it was.
C9_ContainersAreCopies ==
    [][last'.caller \in {"list_remove", "list_append", "set_budget_entry"}
       => PlannerView' = PlannerView]_vars

\* C10: for present dates, get_category_statistics returns a mapping whose
\* keys are exactly the categories with an expense in range, each value the
\* sum of those expenses' amounts; with start > end it returns the empty
\* mapping, where get_total_expenses fails.
C10_CategoryStatistics ==
    /\ (last.op = "get_category_statistics"
          /\ last.args[1] # None /\ last.args[2] # None)
       => /\ last.err = ""
          /\ LET Matches(e) == InRange(last.args[1], e, last.args[2])
                 objs == Deref(expenses)
             IN  /\ DOMAIN last.ret =
                        {c \in Category :
                            \E i \in DOMAIN objs :
                                objs[i].category = c /\ Matches(objs[i])}
                 /\ \A c \in DOMAIN last.ret :
                        LET MatchesIn(e) == e.category = c /\ Matches(e)
                        IN  last.ret[c] = SumWhere(objs, MatchesIn)
          /\ DateLT(last.args[2], last.args[1]) => DOMAIN last.ret = {}
    /\ (last.op = "get_total_expenses"
          /\ last.args[1] # None /\ last.args[2] # None
          /\ DateLT(last.args[2], last.args[1]))
       => last.err # ""

\* C10's case: one category has an expense in range and another has expenses
\* only outside it.
C10_Witness ==
    /\ last.op = "get_category_statistics"
    /\ last.err = ""
    /\ DOMAIN last.ret = {"FOOD"}
    /\ \E a \in Range(expenses) : heap[a].category = "TRANSPORT"
====
